---- MODULE Spec2Model ----
(***************************************************************************)
(* LabelledGraph of the GraphAnon suite (src/labelled_graph/               *)
(* labelled_graph.cpp): label assignment, the alpha-proximity test and the *)
(* two edge-insertion strategies, hopeful and greedy.                      *)
(*                                                                         *)
(* Floats are modelled as exact rationals <<numerator, denominator>> with  *)
(* a positive denominator. A deficiency mask (uint32_t) is modelled as the *)
(* set of its set bit positions, a subset of 0..31; ^ is the symmetric     *)
(* difference and & the intersection.                                      *)
(***************************************************************************)
EXTENDS Integers, Sequences, FiniteSets, TLC

\* Largest vertex count of the graphs the strategies are run on.
MaxN == 4
\* Largest vertex count of the graphs one greedy iteration alone is run on.
MaxNI == 5
\* Largest edge count of those graphs before the iteration.
MaxMI == 3
\* Largest label count of those graphs.
MaxLI == 2
\* Largest label count.
MaxL == 3
\* Largest vertex count evenly_distribute_labels is run on.
MaxNL == 5
\* Largest vertex count of the graphs with 32 labels or more.
MaxNW == 2
\* Largest label count of those graphs.
MaxLW == 33
\* The state of the generator behind rand() is kept as the number of calls
\* made, modulo this period.
RandPeriod == 3
\* Width of uint32_t, the type of the masks and counters.
MaskBits == 32

VARIABLES
  n_,               \* UnlabelledGraph::n_, the number of vertices
  l_,               \* LabelledGraph::l_, the number of labels
  m_,               \* UnlabelledGraph::m_, the number of edges
  adjacency_list_,  \* vertex -> set of neighbours
  vertex_labels_,   \* vertex -> label
  pc,               \* position of the one thread of control
  alpha,            \* the alpha argument of the call in progress
  leaks_privacy,    \* local of hopeful and greedy
  num_new_edges,    \* local of greedy: the last run_greedy_iteration's result
  ret,              \* value returned by the last call that returns one
  last,             \* the call that returned last ("none" before the first)
  pre_adj,          \* history: adjacency_list_ when the call in progress began
  pre_labels,       \* history: vertex_labels_ when the call in progress began
  passes,           \* history: loop passes of the call in progress
  n_random,         \* history: add_random_edge calls of the call in progress
  n_iter,           \* history: run_greedy_iteration calls of the call in progress
  iter_log,         \* history: the last greedy iteration (order, edges added,
                    \*   labels searched, entries as they were when processed)
  edl               \* locals of evenly_distribute_labels

vars == <<n_, l_, m_, adjacency_list_, vertex_labels_, pc, alpha,
          leaks_privacy, num_new_edges, ret, last, pre_adj, pre_labels, passes,
          n_random, n_iter, iter_log, edl>>

Vertices == 0 .. (n_ - 1)
Labels == 0 .. (l_ - 1)

\* The alpha values calls are made with: 0, 0.2 and 0.5.
Alphas == {<<0, 1>>, <<1, 5>>, <<1, 2>>}

----------------------------------------------------------------------------
(* Rationals *)

Leq(a, b) == a[1] * b[2] <= b[1] * a[2]
Less(a, b) == a[1] * b[2] < b[1] * a[2]
Abs(x) == IF x < 0 THEN -x ELSE x

RECURSIVE SumTo(_, _)
\* f[0] + ... + f[k-1]
SumTo(f, k) == IF k = 0 THEN 0 ELSE SumTo(f, k - 1) + f[k - 1]

----------------------------------------------------------------------------
(* LabelDistribution (label_distribution.h, not part of the sources)        *)

\* Total-variation distance of the two normalised distributions: half the sum
\* of the absolute differences of the per-label proportions.
distance(global, other) ==
  LET G == SumTo(global, l_)
      A == SumTo(other, l_)
      diff == [i \in Labels |-> Abs(global[i] * A - other[i] * G)]
  IN  <<SumTo(diff, l_), 2 * G * A>>

\* Bit i is set when the proportion of label i lies below the global one by
\* more than alpha / l; no bit is set when the distribution is within alpha.
get_deficiencies(nb, global, a) ==
  LET G == SumTo(global, l_)
      A == SumTo(nb, l_)
  IN  IF Leq(distance(global, nb), a) THEN {}
      ELSE {i \in Labels :
              nb[i] * G * a[2] * l_ + a[1] * A * G < global[i] * A * a[2] * l_}

----------------------------------------------------------------------------
(* UnlabelledGraph (unlabelled_graph.h, not part of the sources)            *)

MaxEdges == (n_ * (n_ - 1)) \div 2

is_complete == m_ = MaxEdges

\* add_edge( u, v ) succeeds iff u # v and the two are not adjacent yet.
can_add_edge(adj, u, v) == u # v /\ v \notin adj[u]

inserted(adj, u, v) ==
  [adj EXCEPT ![u] = @ \cup {v}, ![v] = @ \cup {u}]

\* add_random_edge(): one edge between two distinct vertices that are not
\* adjacent, chosen at random; nothing when the graph is complete.
add_random_edge ==
  IF is_complete
  THEN UNCHANGED <<adjacency_list_, m_>>
  ELSE \E u \in Vertices : \E v \in Vertices :
         /\ u < v
         /\ can_add_edge(adjacency_list_, u, v)
         /\ adjacency_list_' = inserted(adjacency_list_, u, v)
         /\ m_' = m_ + 1

----------------------------------------------------------------------------
(* Label distributions of the graph *)

get_global_ld ==
  [i \in Labels |-> Cardinality({v \in Vertices : vertex_labels_[v] = i})]

\* As get_neighbourhood_ld, without the count for v's own label.
get_neighbourhood_ld_open(v) ==
  [i \in Labels |->
     Cardinality({u \in adjacency_list_[v] : vertex_labels_[u] = i})]

get_neighbourhood_ld(v) ==
  [i \in Labels |->
     (IF vertex_labels_[v] = i THEN 1 ELSE 0)
     + Cardinality({u \in adjacency_list_[v] : vertex_labels_[u] = i})]

RECURSIVE max_distance_upto(_)
\* max_distance after the loop of is_alpha_proximal has handled vertices 0..k-1
max_distance_upto(k) ==
  IF k = 0 THEN <<0, 1>>
  ELSE LET prev == max_distance_upto(k - 1)
           d == distance(get_global_ld, get_neighbourhood_ld(k - 1))
       IN  IF Less(prev, d) THEN d ELSE prev

\* As is_alpha_proximal, with the loop starting at vertex 1.
is_alpha_proximal_skip0(a) ==
  \A v \in Vertices \ {0} :
     Leq(distance(get_global_ld, get_neighbourhood_ld(v)), a)

is_alpha_proximal(a) == Leq(max_distance_upto(n_), a)

----------------------------------------------------------------------------
(* Bit operations on uint32_t *)

\* A uint32_t that has wrapped below 0 is written as the negative integer
\* congruent to it modulo 2^32: -1 is 0xFFFFFFFF, -2 is 0xFFFFFFFE. 2^32 is a
\* multiple of 32, so the low five bits of such a value are its residue mod 32.
Xor(a, b) == (a \ b) \cup (b \ a)
MinOf(S) == CHOOSE x \in S : \A y \in S : x <= y

\* ffs( defs ): one plus the index of the lowest set bit, 0 when none is set.
ffs(defs) == IF defs = {} THEN 0 ELSE MinOf(defs) + 1

\* 1 << c for a uint32_t count c. A count of 32 or more is undefined: the
\* build either masks the count to its low five bits (ub = "mask") or yields
\* 0 (ub = "zero").
UB == {"mask", "zero"}

shl1(c, ub) ==
  IF 0 <= c /\ c < MaskBits THEN {c}
  ELSE IF ub = "mask" THEN {c % MaskBits} ELSE {}

----------------------------------------------------------------------------
(* run_greedy_iteration *)

\* The uint32_t that holds the deficiencies S: bit i is 1 << i, which for a
\* label of 32 or more is an undefined shift again.
mask_of(S, ub) == UNION {shl1(i, ub) : i \in S}

\* The pool in vertex order: (i, defs) for every vertex with defs > 0.
RECURSIVE visit_order_upto(_, _, _)
visit_order_upto(a, k, ub) ==
  IF k = 0 THEN <<>>
  ELSE LET defs == mask_of(get_deficiencies(get_neighbourhood_ld(k - 1),
                                            get_global_ld, a), ub)
           rest == visit_order_upto(a, k - 1, ub)
       IN  IF defs # {} THEN Append(rest, <<k - 1, defs>>) ELSE rest

\* Every order of a set of entries.
RECURSIVE Orders(_)
Orders(S) ==
  IF S = {} THEN {<<>>}
  ELSE UNION {{<<x>> \o t : t \in Orders(S \ {x})} : x \in S}

\* std::random_shuffle: every order of the pool (its entries are distinct).
Shuffles(pool) == Orders({pool[i] : i \in 1 .. Len(pool)})

\* As find_mate, with the mate's label compared to v's own label.
RECURSIVE find_mate_own_label(_, _, _, _, _)
find_mate_own_label(st, pos, l, j, ub) ==
  LET v == st.vo[pos][1]
      v_label == vertex_labels_[v]
      v_label_bitmask == shl1(v_label, ub)
  IN  IF j > Len(st.vo) THEN st
      ELSE LET u == st.vo[j][1]
           IN  IF /\ st.vo[j][2] \cap v_label_bitmask # {}
                  /\ vertex_labels_[u] = v_label
                  /\ can_add_edge(st.adj, v, u)
               THEN [st EXCEPT
                       !.adj = inserted(st.adj, v, u),
                       !.vo[j] = <<u, Xor(st.vo[j][2], v_label_bitmask)>>,
                       !.added = @ + 1,
                       !.edges = Append(@, [v |-> v, u |-> u, l |-> l, vpos |-> pos,
                                            search |-> Len(st.searches),
                                            upos |-> j, umask |-> st.vo[j][2],
                                            uafter |-> Xor(st.vo[j][2],
                                                           v_label_bitmask)])]
               ELSE find_mate_own_label(st, pos, l, j + 1, ub)

\* As find_mate, with the edge toggled like the mask bit: an edge that is
\* there already is removed.
RECURSIVE find_mate_toggle(_, _, _, _, _)
find_mate_toggle(st, pos, l, j, ub) ==
  LET v == st.vo[pos][1]
      v_label == vertex_labels_[v]
      v_label_bitmask == shl1(v_label, ub)
  IN  IF j > Len(st.vo) THEN st
      ELSE LET u == st.vo[j][1]
           IN  IF /\ st.vo[j][2] \cap v_label_bitmask # {}
                  /\ vertex_labels_[u] = l
                  /\ u # v
               THEN [st EXCEPT
                       !.adj = [st.adj EXCEPT ![v] = Xor(@, {u}), ![u] = Xor(@, {v})],
                       !.vo[j] = <<u, Xor(st.vo[j][2], v_label_bitmask)>>,
                       !.added = @ + 1,
                       !.edges = Append(@, [v |-> v, u |-> u, l |-> l, vpos |-> pos,
                                            search |-> Len(st.searches),
                                            upos |-> j, umask |-> st.vo[j][2],
                                            uafter |-> Xor(st.vo[j][2],
                                                           v_label_bitmask)])]
               ELSE find_mate_toggle(st, pos, l, j + 1, ub)

\* As find_mate, with the result of add_edge ignored: a mate that is adjacent
\* already counts as an edge added and ends the search.
RECURSIVE find_mate_unchecked(_, _, _, _, _)
find_mate_unchecked(st, pos, l, j, ub) ==
  LET v == st.vo[pos][1]
      v_label == vertex_labels_[v]
      v_label_bitmask == shl1(v_label, ub)
  IN  IF j > Len(st.vo) THEN st
      ELSE LET u == st.vo[j][1]
           IN  IF /\ st.vo[j][2] \cap v_label_bitmask # {}
                  /\ vertex_labels_[u] = l
               THEN [st EXCEPT
                       !.adj = inserted(st.adj, v, u),
                       !.vo[j] = <<u, Xor(st.vo[j][2], v_label_bitmask)>>,
                       !.added = @ + 1,
                       !.edges = Append(@, [v |-> v, u |-> u, l |-> l, vpos |-> pos,
                                            search |-> Len(st.searches),
                                            upos |-> j, umask |-> st.vo[j][2],
                                            uafter |-> Xor(st.vo[j][2],
                                                           v_label_bitmask)])]
               ELSE find_mate_unchecked(st, pos, l, j + 1, ub)

\* The mate loop: entries j.. of the order are tried for entry pos and label l.
\* st = [adj, vo, added, edges, searches, visits], the last three being the
\* record of the edges added, the labels searched and the entries processed.
\* v_label_bitmask is 1 << v's label,
\* an undefined shift when the label is 32 or more.
RECURSIVE find_mate(_, _, _, _, _)
find_mate(st, pos, l, j, ub) ==
  LET v == st.vo[pos][1]
      v_label == vertex_labels_[v]
      v_label_bitmask == shl1(v_label, ub)
  IN  IF j > Len(st.vo) THEN st
      ELSE LET u == st.vo[j][1]
           IN  IF /\ st.vo[j][2] \cap v_label_bitmask # {}
                  /\ vertex_labels_[u] = l
                  /\ can_add_edge(st.adj, v, u)
               THEN [st EXCEPT
                       !.adj = inserted(st.adj, v, u),
                       !.vo[j] = <<u, Xor(st.vo[j][2], v_label_bitmask)>>,
                       !.added = @ + 1,
                       !.edges = Append(@, [v |-> v, u |-> u, l |-> l, vpos |-> pos,
                                            search |-> Len(st.searches),
                                            upos |-> j, umask |-> st.vo[j][2],
                                            uafter |-> Xor(st.vo[j][2],
                                                           v_label_bitmask)])]
               ELSE find_mate(st, pos, l, j + 1, ub)

\* The loop over the deficient labels of entry pos: pass i of num_def_labels.
RECURSIVE label_loop(_, _, _, _, _, _)
label_loop(st, pos, defs, i, num_def_labels, ub) ==
  IF i >= num_def_labels THEN st
  ELSE LET l == ffs(defs) - 1
           searched == [st EXCEPT !.searches =
                          Append(@, [v |-> st.vo[pos][1], pos |-> pos, l |-> l,
                                     adj |-> st.adj, vo |-> st.vo])]
           st2 == find_mate(searched, pos, l, pos + 1, ub)
       IN  label_loop(st2, pos, Xor(defs, shl1(l - 1, ub)), i + 1, num_def_labels, ub)

\* The loop over the shuffled order, from entry pos on.
RECURSIVE visit_loop(_, _, _)
visit_loop(st, pos, ub) ==
  IF pos > Len(st.vo) THEN st
  ELSE LET defs == st.vo[pos][2]
           visited == [st EXCEPT !.visits =
                         Append(@, [v |-> st.vo[pos][1], pos |-> pos, defs |-> defs,
                                    adj |-> st.adj, vo |-> st.vo])]
       IN  visit_loop(label_loop(visited, pos, defs, 0, Cardinality(defs), ub),
                      pos + 1, ub)

\* The iteration under one outcome of the shuffle.
run_greedy_iteration(order, ub) ==
  visit_loop([adj |-> adjacency_list_, vo |-> order, added |-> 0,
              edges |-> <<>>, searches |-> <<>>, visits |-> <<>>], 1, ub)

----------------------------------------------------------------------------
(* The graph after construction, and the calls made on it *)

NoLog == [order |-> <<>>, edges |-> <<>>, searches |-> <<>>, visits |-> <<>>]
NoEdl == [vertices_per_label |-> 0, labels_left |-> 0, cur_label |-> 0,
          num_assigned |-> 0, s |-> {}, v |-> 0, l |-> 0, rand_state |-> 0]

\* The generator's state after k more calls of rand().
rand(state, k) == (state + k) % RandPeriod

EdgeCount(adj, V) ==
  Cardinality({e \in V \X V : e[1] < e[2] /\ e[2] \in adj[e[1]]})

\* LabelledGraph( filename ): any labels, any undirected simple graph. Every
\* operation treats the vertex ids alike (the pool is shuffled, the random
\* edge is any non-adjacent pair), so one labelling per renaming of the
\* vertices is enumerated: the one whose labels never decrease with the id.
Loaded(N, L, M) ==
  /\ n_ \in 1 .. N
  /\ l_ \in 1 .. L
  /\ vertex_labels_ \in [0 .. (n_ - 1) -> 0 .. (l_ - 1)]
  /\ \A u, v \in 0 .. (n_ - 1) : u < v => vertex_labels_[u] <= vertex_labels_[v]
  /\ \E E \in SUBSET {e \in (0 .. (n_ - 1)) \X (0 .. (n_ - 1)) : e[1] < e[2]} :
       /\ Cardinality(E) <= M
       /\ adjacency_list_ =
            [v \in 0 .. (n_ - 1) |->
               {u \in 0 .. (n_ - 1) : <<u, v>> \in E \/ <<v, u>> \in E}]
  /\ m_ = EdgeCount(adjacency_list_, 0 .. (n_ - 1))
  /\ pc = "idle"
  /\ alpha = <<0, 1>>
  /\ leaks_privacy = FALSE
  /\ num_new_edges = 0
  /\ ret = "none"
  /\ last = "none"
  /\ pre_adj = adjacency_list_
  /\ pre_labels = vertex_labels_
  /\ passes = 0
  /\ n_random = 0
  /\ n_iter = 0
  /\ iter_log = NoLog
  /\ edl = NoEdl

Init == Loaded(MaxN, MaxL, (MaxN * (MaxN - 1)) \div 2)

\* A call begins on a graph no call is recorded for: the history variables
\* are set.
Begin(a) ==
  /\ pc = "idle" /\ last = "none"
  /\ alpha' = a
  /\ pre_adj' = adjacency_list_
  /\ pre_labels' = vertex_labels_
  /\ passes' = 0
  /\ n_random' = 0
  /\ n_iter' = 0
  /\ iter_log' = NoLog

IsAlphaProximal(a) ==
  /\ Begin(a)
  /\ ret' = is_alpha_proximal(a)
  /\ last' = "is_alpha_proximal"
  /\ leaks_privacy' = FALSE /\ num_new_edges' = 0
  /\ UNCHANGED <<n_, l_, m_, adjacency_list_, vertex_labels_, pc, edl>>

HopefulCall(a) ==
  /\ Begin(a)
  /\ leaks_privacy' = ~is_alpha_proximal(a)
  /\ pc' = "hopeful_while"
  /\ ret' = "none" /\ last' = "none" /\ num_new_edges' = 0
  /\ UNCHANGED <<n_, l_, m_, adjacency_list_, vertex_labels_, edl>>

\* As HopefulPass, without the random edge.
HopefulPass_no_edge ==
  /\ pc = "hopeful_while"
  /\ leaks_privacy /\ ~is_complete
  /\ passes' = passes + 1
  /\ IF is_alpha_proximal(alpha)
     THEN leaks_privacy' = FALSE
     ELSE UNCHANGED leaks_privacy
  /\ UNCHANGED <<n_, l_, vertex_labels_, pc, alpha, num_new_edges, ret, last,
                 pre_adj, pre_labels, n_iter, iter_log, edl,
                 adjacency_list_, m_, n_random>>

HopefulPass ==
  /\ pc = "hopeful_while"
  /\ leaks_privacy /\ ~is_complete
  /\ passes' = passes + 1
  /\ IF is_alpha_proximal(alpha)
     THEN /\ leaks_privacy' = FALSE
          /\ UNCHANGED <<adjacency_list_, m_, n_random>>
     ELSE /\ add_random_edge
          /\ n_random' = n_random + 1
          /\ UNCHANGED leaks_privacy
  /\ UNCHANGED <<n_, l_, vertex_labels_, pc, alpha, num_new_edges, ret, last,
                 pre_adj, pre_labels, n_iter, iter_log, edl>>

HopefulReturn ==
  /\ pc = "hopeful_while"
  /\ ~(leaks_privacy /\ ~is_complete)
  /\ pc' = "idle"
  /\ last' = "hopeful"
  /\ UNCHANGED <<n_, l_, m_, adjacency_list_, vertex_labels_, alpha, leaks_privacy,
                 num_new_edges, ret, pre_adj, pre_labels, passes, n_random, n_iter,
                 iter_log, edl>>

\* One run_greedy_iteration( a ) on the current graph: the shuffle and the
\* outcome of the undefined shifts are chosen, the rest is computed.
GreedyIterationStep(a) ==
  \E ub \in UB : \E order \in Shuffles(visit_order_upto(a, n_, ub)) :
    LET res == run_greedy_iteration(order, ub)
    IN  /\ adjacency_list_' = res.adj
        /\ m_' = m_ + res.added
        /\ num_new_edges' = res.added
        /\ iter_log' = IF pc = "idle"
                       THEN [order |-> order, edges |-> res.edges,
                             searches |-> res.searches, visits |-> res.visits]
                       ELSE NoLog

RunGreedyIteration(a) ==
  /\ pc = "idle" /\ last = "none"
  /\ alpha' = a
  /\ pre_adj' = adjacency_list_
  /\ pre_labels' = vertex_labels_
  /\ passes' = 0
  /\ n_random' = 0
  /\ n_iter' = 1
  /\ GreedyIterationStep(a)
  /\ ret' = num_new_edges'
  /\ last' = "run_greedy_iteration"
  /\ leaks_privacy' = FALSE
  /\ UNCHANGED <<n_, l_, vertex_labels_, pc, edl>>

\* As GreedyCall, with the loop entered without the first test.
GreedyCall_no_test(a) ==
  /\ Begin(a)
  /\ leaks_privacy' = TRUE
  /\ pc' = "greedy_while"
  /\ ret' = "none" /\ last' = "none" /\ num_new_edges' = 0
  /\ UNCHANGED <<n_, l_, m_, adjacency_list_, vertex_labels_, edl>>

GreedyCall(a) ==
  /\ Begin(a)
  /\ leaks_privacy' = ~is_alpha_proximal(a)
  /\ pc' = "greedy_while"
  /\ ret' = "none" /\ last' = "none" /\ num_new_edges' = 0
  /\ UNCHANGED <<n_, l_, m_, adjacency_list_, vertex_labels_, edl>>

\* Line 306: the loop condition held and the iteration is run.
GreedyIteration ==
  /\ pc = "greedy_while"
  /\ leaks_privacy /\ ~is_complete
  /\ passes' = passes + 1
  /\ n_iter' = n_iter + 1
  /\ GreedyIterationStep(alpha)
  /\ pc' = "greedy_test"
  /\ UNCHANGED <<n_, l_, vertex_labels_, alpha, leaks_privacy, ret, last, pre_adj,
                 pre_labels, n_random, edl>>

\* As GreedyTest, with new edges taken for success instead of the re-test.
GreedyTest_no_retest ==
  /\ pc = "greedy_test"
  /\ pc' = "greedy_while"
  /\ IF num_new_edges > 0
     THEN /\ leaks_privacy' = FALSE
          /\ UNCHANGED <<adjacency_list_, m_, n_random>>
     ELSE /\ add_random_edge
          /\ n_random' = n_random + 1
          /\ UNCHANGED leaks_privacy
  /\ UNCHANGED <<n_, l_, vertex_labels_, alpha, num_new_edges, ret, last, pre_adj,
                 pre_labels, passes, n_iter, iter_log, edl>>

\* As GreedyTest, without the random edge after an empty iteration.
GreedyTest_no_fallback ==
  /\ pc = "greedy_test"
  /\ pc' = "greedy_while"
  /\ IF is_alpha_proximal(alpha)
     THEN leaks_privacy' = FALSE
     ELSE UNCHANGED leaks_privacy
  /\ UNCHANGED <<n_, l_, vertex_labels_, alpha, num_new_edges, ret, last, pre_adj,
                 pre_labels, passes, n_iter, iter_log, edl,
                 adjacency_list_, m_, n_random>>

\* As GreedyTest, with the random edge added after every iteration that left
\* the graph short of alpha-proximity.
GreedyTest_always_random ==
  /\ pc = "greedy_test"
  /\ pc' = "greedy_while"
  /\ IF is_alpha_proximal(alpha)
     THEN /\ leaks_privacy' = FALSE
          /\ UNCHANGED <<adjacency_list_, m_, n_random>>
     ELSE /\ add_random_edge
          /\ n_random' = n_random + 1
          /\ UNCHANGED leaks_privacy
  /\ UNCHANGED <<n_, l_, vertex_labels_, alpha, num_new_edges, ret, last, pre_adj,
                 pre_labels, passes, n_iter, iter_log, edl>>

\* Lines 307-308: the re-test, and the random edge after an empty iteration.
GreedyTest ==
  /\ pc = "greedy_test"
  /\ pc' = "greedy_while"
  /\ IF is_alpha_proximal(alpha)
     THEN /\ leaks_privacy' = FALSE
          /\ UNCHANGED <<adjacency_list_, m_, n_random>>
     ELSE IF num_new_edges = 0
          THEN /\ add_random_edge
               /\ n_random' = n_random + 1
               /\ UNCHANGED leaks_privacy
          ELSE UNCHANGED <<adjacency_list_, m_, n_random, leaks_privacy>>
  /\ UNCHANGED <<n_, l_, vertex_labels_, alpha, num_new_edges, ret, last, pre_adj,
                 pre_labels, passes, n_iter, iter_log, edl>>

GreedyReturn ==
  /\ pc = "greedy_while"
  /\ ~(leaks_privacy /\ ~is_complete)
  /\ pc' = "idle"
  /\ last' = "greedy"
  /\ UNCHANGED <<n_, l_, m_, adjacency_list_, vertex_labels_, alpha, leaks_privacy,
                 num_new_edges, ret, pre_adj, pre_labels, passes, n_random, n_iter,
                 iter_log, edl>>

\* The caller has read the result of a call and goes on: the record of the
\* call is dropped, the graph stays.
CallerResumes ==
  /\ pc = "idle" /\ last # "none"
  /\ alpha' = <<0, 1>>
  /\ leaks_privacy' = FALSE
  /\ num_new_edges' = 0
  /\ ret' = "none"
  /\ last' = "none"
  /\ pre_adj' = adjacency_list_
  /\ pre_labels' = vertex_labels_
  /\ passes' = 0
  /\ n_random' = 0
  /\ n_iter' = 0
  /\ iter_log' = NoLog
  /\ UNCHANGED <<n_, l_, m_, adjacency_list_, vertex_labels_, pc, edl>>

Next ==
  \/ \E a \in Alphas : IsAlphaProximal(a)
  \/ \E a \in Alphas : HopefulCall(a)
  \/ HopefulPass
  \/ HopefulReturn
  \/ \E a \in Alphas : RunGreedyIteration(a)
  \/ \E a \in Alphas : GreedyCall(a)
  \/ GreedyIteration
  \/ GreedyTest
  \/ GreedyReturn
  \/ CallerResumes

Spec == Init /\ [][Next]_vars

\* run_greedy_iteration alone, on larger and sparse graphs.
InitIteration == Loaded(MaxNI, MaxLI, MaxMI)

\* Graphs with as many labels as the mask has bits, and with more.
InitWide ==
  /\ Loaded(MaxNW, MaxLW, (MaxNW * (MaxNW - 1)) \div 2)
  /\ l_ >= MaskBits

SpecWide == InitWide /\ [][Next]_vars

NextIteration == \E a \in Alphas : RunGreedyIteration(a)

SpecIteration == InitIteration /\ [][NextIteration]_vars

----------------------------------------------------------------------------
(* evenly_distribute_labels, one rand() draw per step *)

\* LabelledGraph( num_vertices, num_labels ) and init(): every label 0, no edge.
InitLabels ==
  /\ n_ \in 1 .. MaxNL
  /\ l_ \in 1 .. MaxL
  /\ vertex_labels_ = [v \in 0 .. (n_ - 1) |-> 0]
  /\ adjacency_list_ = [v \in 0 .. (n_ - 1) |-> {}]
  /\ m_ = 0
  /\ pc = "idle"
  /\ alpha = <<0, 1>>
  /\ leaks_privacy = FALSE
  /\ num_new_edges = 0
  /\ ret = "none"
  /\ last = "none"
  /\ pre_adj = adjacency_list_
  /\ pre_labels = vertex_labels_
  /\ passes = 0
  /\ n_random = 0
  /\ n_iter = 0
  /\ iter_log = NoLog
  /\ edl = NoEdl

EdlFrame == UNCHANGED <<n_, l_, m_, adjacency_list_, alpha, leaks_privacy,
                        num_new_edges, ret, pre_adj, pre_labels, passes, n_random,
                        n_iter, iter_log>>

\* Lines 121-122 and the entry of the for loop of line 128.
EdlCall ==
  /\ pc = "idle" /\ last = "none"
  /\ edl' = [NoEdl EXCEPT !.vertices_per_label = n_ \div l_,
                          !.labels_left = n_ - (n_ \div l_),
                          !.cur_label = 1]
  /\ pc' = "edl_for"
  /\ UNCHANGED <<vertex_labels_, last>>
  /\ EdlFrame

\* Lines 130-132: one draw of the quota loop. On a vertex that is labelled
\* already num_assigned is decremented and then incremented by the loop.
EdlQuotaDraw(v) ==
  /\ pc = "edl_for"
  /\ edl.cur_label < l_
  /\ edl.num_assigned < edl.vertices_per_label
  /\ IF vertex_labels_[v] = 0
     THEN /\ vertex_labels_' = [vertex_labels_ EXCEPT ![v] = edl.cur_label]
          /\ edl' = [edl EXCEPT !.num_assigned = @ + 1,
                                !.rand_state = rand(@, 1)]
     ELSE /\ edl' = [edl EXCEPT !.rand_state = rand(@, 1)]
          /\ UNCHANGED vertex_labels_
  /\ UNCHANGED <<pc, last>>
  /\ EdlFrame

\* Line 134 and the step of the outer for loop.
EdlQuotaNext ==
  /\ pc = "edl_for"
  /\ edl.cur_label < l_
  /\ edl.num_assigned >= edl.vertices_per_label
  /\ edl' = [edl EXCEPT !.labels_left = @ - edl.vertices_per_label,
                        !.cur_label = @ + 1,
                        !.num_assigned = 0]
  /\ UNCHANGED <<vertex_labels_, pc, last>>
  /\ EdlFrame

\* The for loop ends; line 138.
EdlQuotaExit ==
  /\ pc = "edl_for"
  /\ edl.cur_label >= l_
  /\ IF edl.labels_left > 0
     THEN pc' = "edl_while" /\ UNCHANGED last
     ELSE pc' = "idle" /\ last' = "evenly_distribute_labels"
  /\ UNCHANGED <<vertex_labels_, edl>>
  /\ EdlFrame

\* Lines 141-143: an unlabelled vertex is drawn, and a first label for it.
EdlRemainderPick(v, l) ==
  /\ pc = "edl_while"
  /\ edl.labels_left > 0
  /\ vertex_labels_[v] = 0
  /\ edl' = [edl EXCEPT !.v = v, !.l = l, !.rand_state = rand(@, 2)]
  /\ pc' = "edl_inner"
  /\ UNCHANGED <<vertex_labels_, last>>
  /\ EdlFrame

\* Lines 144-146: the label drawn was used already, another is drawn.
EdlRemainderRetry(l) ==
  /\ pc = "edl_inner"
  /\ edl.l \in edl.s
  /\ edl' = [edl EXCEPT !.l = l, !.rand_state = rand(@, 1)]
  /\ UNCHANGED <<vertex_labels_, pc, last>>
  /\ EdlFrame

\* As EdlRemainderAssign, without the insertion into s.
EdlRemainderAssign_no_insert ==
  /\ pc = "edl_inner"
  /\ edl.l \notin edl.s
  /\ vertex_labels_' = [vertex_labels_ EXCEPT ![edl.v] = edl.l]
  /\ edl' = [edl EXCEPT !.labels_left = @ - 1]
  /\ pc' = "edl_while"
  /\ UNCHANGED last
  /\ EdlFrame

\* Lines 147-149.
EdlRemainderAssign ==
  /\ pc = "edl_inner"
  /\ edl.l \notin edl.s
  /\ vertex_labels_' = [vertex_labels_ EXCEPT ![edl.v] = edl.l]
  /\ edl' = [edl EXCEPT !.s = @ \cup {edl.l}, !.labels_left = @ - 1]
  /\ pc' = "edl_while"
  /\ UNCHANGED last
  /\ EdlFrame

\* Lines 151-154: a labelled vertex is drawn; r is rand() % l_.
EdlRemainderSkip(v, r) ==
  /\ pc = "edl_while"
  /\ edl.labels_left > 0
  /\ vertex_labels_[v] # 0
  /\ edl' = IF r = 0
            THEN [edl EXCEPT !.labels_left = @ - 1, !.rand_state = rand(@, 2)]
            ELSE [edl EXCEPT !.rand_state = rand(@, 2)]
  /\ UNCHANGED <<vertex_labels_, pc, last>>
  /\ EdlFrame

\* The while loop of line 140 ends and the function returns.
EdlReturn ==
  /\ pc = "edl_while"
  /\ edl.labels_left = 0
  /\ pc' = "idle"
  /\ last' = "evenly_distribute_labels"
  /\ UNCHANGED <<vertex_labels_, edl>>
  /\ EdlFrame

NextLabels ==
  \/ EdlCall
  \/ \E v \in Vertices : EdlQuotaDraw(v)
  \/ EdlQuotaNext
  \/ EdlQuotaExit
  \/ \E v \in Vertices : \E l \in Labels : EdlRemainderPick(v, l)
  \/ \E l \in Labels : EdlRemainderRetry(l)
  \/ EdlRemainderAssign
  \/ \E v \in Vertices : \E r \in Labels : EdlRemainderSkip(v, r)
  \/ EdlReturn

SpecLabels == InitLabels /\ [][NextLabels]_vars

\* The one thread of control keeps running: a step that can be taken is taken.
\* Nothing constrains the values rand() returns.
SpecLabelsFair == SpecLabels /\ WF_vars(NextLabels)

----------------------------------------------------------------------------
(* The properties, stated on the graph itself *)

ClosedNeighbourhood(adj, v) == {v} \cup adj[v]

LabelCounts(S) ==
  [i \in Labels |-> Cardinality({u \in S : vertex_labels_[u] = i})]

\* Distance of v's closed-neighbourhood distribution to the global one.
VertexDistance(adj, v) ==
  distance(LabelCounts(Vertices), LabelCounts(ClosedNeighbourhood(adj, v)))

Proximal(adj, a) == \A v \in Vertices : Leq(VertexDistance(adj, v), a)

Complete(adj) == \A u, v \in Vertices : u # v => v \in adj[u]

Returned(op) == pc = "idle" /\ last = op

\* C1: is_alpha_proximal(alpha) returns true iff every vertex's closed
\* neighbourhood distribution is within alpha of the global distribution, and
\* the call changes neither the edges nor the labels.
C1_ProximalIffAllWithin ==
  Returned("is_alpha_proximal") =>
    /\ ret = Proximal(adjacency_list_, alpha)
    /\ adjacency_list_ = pre_adj
    /\ vertex_labels_ = pre_labels

\* A false answer on a graph where some vertices are within alpha and one is not.
C1_Witness ==
  /\ Returned("is_alpha_proximal")
  /\ ret = FALSE
  /\ \E v \in Vertices : Leq(VertexDistance(adjacency_list_, v), alpha)
  /\ \E v \in Vertices : ~Leq(VertexDistance(adjacency_list_, v), alpha)

\* C2: when hopeful(alpha) or greedy(alpha) returns, the graph is
\* alpha-proximal or complete.
C2_ReturnsProximalOrComplete ==
  (Returned("hopeful") \/ Returned("greedy")) =>
    Proximal(adjacency_list_, alpha) \/ Complete(adjacency_list_)

\* greedy returned on a proximal graph that is not complete, after two
\* iterations that added edges.
C2_Witness ==
  /\ Returned("greedy")
  /\ n_iter >= 2
  /\ adjacency_list_ # pre_adj
  /\ Proximal(adjacency_list_, alpha)
  /\ ~Complete(adjacency_list_)

\* C3: on a complete graph is_alpha_proximal(alpha) returns true, for every
\* alpha >= 0 and every labelling.
C3_CompleteIsProximal ==
  (Returned("is_alpha_proximal") /\ Complete(adjacency_list_)) => ret = TRUE

\* A complete graph on three or more vertices with two labels, tested with 0.
C3_Witness ==
  /\ Returned("is_alpha_proximal")
  /\ Complete(adjacency_list_)
  /\ n_ >= 3
  /\ alpha = <<0, 1>>
  /\ \E u, v \in Vertices : vertex_labels_[u] # vertex_labels_[v]
  /\ ret = TRUE

InHopefulOrGreedy ==
  \/ pc \in {"hopeful_while", "greedy_while", "greedy_test"}
  \/ Returned("hopeful")
  \/ Returned("greedy")

\* C4: hopeful and greedy called on a graph that is complete or alpha-proximal
\* already add no edge, run no greedy iteration and call add_random_edge never.
C4_NoWorkWhenSatisfied ==
  (InHopefulOrGreedy /\ (Complete(pre_adj) \/ Proximal(pre_adj, alpha))) =>
    /\ adjacency_list_ = pre_adj
    /\ passes = 0 /\ n_iter = 0 /\ n_random = 0

\* hopeful returned from a call on a proximal graph that is not complete.
C4_Witness ==
  /\ Returned("hopeful")
  /\ Proximal(pre_adj, alpha)
  /\ ~Complete(pre_adj)
  /\ m_ >= 1

InGreedy == pc \in {"greedy_while", "greedy_test"} \/ Returned("greedy")

C5_Bound ==
  InGreedy =>
    /\ passes <= MaxEdges - EdgeCount(pre_adj, Vertices) + 1
    /\ (pc = "greedy_while" /\ leaks_privacy) =>
          passes <= m_ - EdgeCount(pre_adj, Vertices)

\* C5: every pass of greedy's loop ends the loop or adds an edge, an empty
\* iteration on a graph that still leaks being followed by one random edge; so
\* the loop makes at most n(n-1)/2 - m0 + 1 passes.
C5_GreedyProgress ==
  [][/\ C5_Bound'
     /\ (pc = "greedy_test" /\ num_new_edges = 0
           /\ ~Proximal(adjacency_list_, alpha)) =>
          (n_random' = n_random + 1 /\ m_' = m_ + 1)]_vars

\* greedy at the head of its loop after an empty iteration and its random edge.
C5_Witness ==
  /\ pc = "greedy_while"
  /\ leaks_privacy
  /\ passes >= 2
  /\ n_random >= 1

C6_Bound ==
  (pc = "hopeful_while" \/ Returned("hopeful")) =>
    /\ n_random = m_ - EdgeCount(pre_adj, Vertices)
    /\ m_ = EdgeCount(adjacency_list_, Vertices)
    /\ n_random <= MaxEdges - EdgeCount(pre_adj, Vertices)
    /\ passes <= n_random + 1

\* C6: every pass of hopeful's loop stops the loop or adds exactly one edge
\* between two distinct vertices that were not adjacent; so at most
\* n(n-1)/2 - m0 edges are added and the loop ends.
C6_HopefulProgress ==
  [][/\ C6_Bound'
     /\ (pc = "hopeful_while" /\ pc' = "hopeful_while") =>
          \/ /\ leaks_privacy /\ ~leaks_privacy'
             /\ adjacency_list_' = adjacency_list_
          \/ \E u, v \in Vertices :
               /\ u # v /\ v \notin adjacency_list_[u]
               /\ adjacency_list_' = inserted(adjacency_list_, u, v)]_vars

\* hopeful returned only once the graph was complete, two or more edges later.
C6_Witness ==
  /\ Returned("hopeful")
  /\ Complete(adjacency_list_)
  /\ leaks_privacy
  /\ n_random >= 2

\* C7 as stated: after run_greedy_iteration the largest vertex distance is no
\* greater than before it.
C7_NonRegression ==
  Returned("run_greedy_iteration") =>
    \A v \in Vertices :
      \E w \in Vertices :
        Leq(VertexDistance(adjacency_list_, v), VertexDistance(pre_adj, w))

\* C7, amended: a greedy iteration leaves every vertex that was within alpha
\* of the global distribution with the neighbours, and so the distance, it had.
C7_SatisfiedVerticesKept ==
  Returned("run_greedy_iteration") =>
    \A v \in Vertices :
      Leq(VertexDistance(pre_adj, v), alpha) =>
        /\ adjacency_list_[v] = pre_adj[v]
        /\ VertexDistance(adjacency_list_, v) = VertexDistance(pre_adj, v)

\* An iteration that added an edge on a graph with a vertex within alpha.
C7_Witness ==
  /\ Returned("run_greedy_iteration")
  /\ ret >= 1
  /\ \E v \in Vertices : Leq(VertexDistance(pre_adj, v), alpha)

C8_Scenario ==
  /\ n_ = 4 /\ l_ = 2
  /\ vertex_labels_ = (0 :> 0 @@ 1 :> 0 @@ 2 :> 1 @@ 3 :> 1)
  /\ \A v \in Vertices : pre_adj[v] = {}
  /\ alpha = <<1, 5>>

\* C8: on the edgeless graph with labels [0,0,1,1], is_alpha_proximal(0.2) is
\* false, greedy(0.2) enters its loop, and its first greedy iteration adds an
\* edge between a label-0 and a label-1 vertex before the re-test.
C8_ScenarioFirstIteration ==
  C8_Scenario =>
    /\ Returned("is_alpha_proximal") => ret = FALSE
    /\ (pc = "greedy_while" /\ passes = 0) => (leaks_privacy /\ ~is_complete)
    /\ (pc = "greedy_test" /\ passes = 1) =>
          \E u, v \in Vertices :
            /\ v \in adjacency_list_[u]
            /\ vertex_labels_[u] = 0 /\ vertex_labels_[v] = 1

\* The scenario after the first iteration of greedy(0.2), before the re-test.
C8_Witness ==
  /\ C8_Scenario
  /\ pc = "greedy_test" /\ passes = 1
  /\ num_new_edges >= 1

\* C9: no step removes an edge or changes the vertex count, the label count or
\* a vertex's label.
C9_EdgesGrowLabelsFixed ==
  [][/\ \A v \in Vertices : adjacency_list_[v] \subseteq adjacency_list_'[v]
     /\ vertex_labels_' = vertex_labels_
     /\ n_' = n_ /\ l_' = l_]_vars

\* An iteration returned after adding two or more edges to a graph with edges.
C9_Witness ==
  /\ Returned("run_greedy_iteration")
  /\ ret >= 2
  /\ \E v \in Vertices : pre_adj[v] # {}

CountOf(i) == Cardinality({v \in Vertices : vertex_labels_[v] = i})

\* C10 as stated: after evenly_distribute_labels every vertex has a label in
\* [0,l), every label is carried by floor(n/l) vertices or more and no two
\* labels' counts differ by more than one.
C10_CountsDifferByOne ==
  Returned("evenly_distribute_labels") =>
    /\ \A v \in Vertices : vertex_labels_[v] \in Labels
    /\ \A i \in Labels : CountOf(i) >= n_ \div l_
    /\ \A i, j \in Labels : CountOf(i) - CountOf(j) <= 1

\* C10, amended: every vertex has a label in [0,l), every label is carried by
\* floor(n/l) vertices or more, a label other than 0 by floor(n/l) + 1 at most
\* and label 0 by floor(n/l) + n mod l at most.
C10_CountsWithinRemainder ==
  Returned("evenly_distribute_labels") =>
    /\ \A v \in Vertices : vertex_labels_[v] \in Labels
    /\ \A i \in Labels : CountOf(i) >= n_ \div l_
    /\ \A i \in Labels \ {0} : CountOf(i) <= (n_ \div l_) + 1
    /\ CountOf(0) <= (n_ \div l_) + (n_ % l_)

\* The remainder stayed with label 0: its count is two above another's.
C10_Witness ==
  /\ Returned("evenly_distribute_labels")
  /\ l_ >= 2
  /\ CountOf(0) >= CountOf(1) + 2

\* C11: evenly_distribute_labels, once called, returns, whatever values rand()
\* yields: no sequence of draws keeps one of its loops retrying forever.
C11_AlwaysTerminates ==
  (pc \in {"edl_for", "edl_while", "edl_inner"}) ~>
      Returned("evenly_distribute_labels")

\* The shift counts of line 271 in the last iteration: the labels of the
\* entries processed.
ShiftCounts ==
  {vertex_labels_[iter_log.order[i][1]] : i \in 1 .. Len(iter_log.order)}

\* C12: on a graph with more than 32 labels a call fails with a configuration
\* error before a deficiency mask is computed, so that no greedy iteration (the
\* one place that computes masks) is run on it; and no greedy iteration shifts
\* a mask bit by a label index of 32 or more.
C12_WideLabelsRejected ==
  /\ l_ > MaskBits => n_iter = 0
  /\ \A c \in ShiftCounts : c < MaskBits

\* The labels of S, lowest first.
RECURSIVE Ascending(_)
Ascending(S) ==
  IF S = {} THEN <<>> ELSE <<MinOf(S)>> \o Ascending(S \ {MinOf(S)})

\* The labels a mate was searched for while entry pos was processed, in order.
RECURSIVE SearchedFrom(_, _)
SearchedFrom(pos, k) ==
  IF k > Len(iter_log.searches) THEN <<>>
  ELSE IF iter_log.searches[k].pos = pos
       THEN <<iter_log.searches[k].l>> \o SearchedFrom(pos, k + 1)
       ELSE SearchedFrom(pos, k + 1)

\* C13: while a greedy iteration processes a pool entry (v, defs), a mate is
\* searched for exactly the labels set in defs, each once and lowest first;
\* and when a later entry u has such a label l, has the bit of v's label set
\* in its recorded mask and is not adjacent to v, an edge from v to a vertex
\* of label l is added.
C13_SearchesTheDeficientLabels ==
  Returned("run_greedy_iteration") =>
    \A k \in 1 .. Len(iter_log.visits) :
      LET e == iter_log.visits[k]
      IN  /\ SearchedFrom(e.pos, 1) = Ascending(e.defs)
          /\ \A l \in e.defs :
                (\E j \in (e.pos + 1) .. Len(e.vo) :
                    /\ vertex_labels_[e.vo[j][1]] = l
                    /\ vertex_labels_[e.v] \in e.vo[j][2]
                    /\ e.vo[j][1] \notin e.adj[e.v])
                => \E x \in 1 .. Len(iter_log.edges) :
                      /\ iter_log.edges[x].vpos = e.pos
                      /\ vertex_labels_[iter_log.edges[x].u] = l

\* The deficiency masks computed at the start of the iteration, by vertex.
StartMask(v) ==
  LET hit == {i \in 1 .. Len(iter_log.order) : iter_log.order[i][1] = v}
  IN  IF hit = {} THEN {} ELSE iter_log.order[CHOOSE i \in hit : TRUE][2]

InPool(v) == \E i \in 1 .. Len(iter_log.order) : iter_log.order[i][1] = v

\* C14: every edge (v, u) a greedy iteration adds joins the entry processed to
\* a later entry of the pool: u comes after v in the shuffled order, u's
\* recorded mask had the bit of v's label set when the edge was added, and
\* u's label is one whose bit is set in v's mask of the start of the iteration.
C14_EdgesAreReciprocalRepairs ==
  Returned("run_greedy_iteration") =>
    \A x \in 1 .. Len(iter_log.edges) :
      LET e == iter_log.edges[x]
      IN  /\ InPool(e.v) /\ InPool(e.u)
          /\ e.vpos < e.upos
          /\ iter_log.order[e.vpos][1] = e.v
          /\ iter_log.order[e.upos][1] = e.u
          /\ vertex_labels_[e.v] \in e.umask
          /\ vertex_labels_[e.u] \in StartMask(e.v)

\* The edges of the iteration that join w to a vertex of label L.
EdgesTo(w, L) ==
  {x \in 1 .. Len(iter_log.edges) :
     \/ iter_log.edges[x].v = w /\ vertex_labels_[iter_log.edges[x].u] = L
     \/ iter_log.edges[x].u = w /\ vertex_labels_[iter_log.edges[x].v] = L}

\* C15: within one greedy iteration no vertex is matched twice for a label:
\* once an edge (v, u) is added the bit of v's label is clear in u's recorded
\* mask, and for every vertex w and label L at most one of the edges added
\* joins w to a vertex of label L, w being the entry processed or the mate.
C15_NoRedundantMatch ==
  Returned("run_greedy_iteration") =>
    /\ \A x \in 1 .. Len(iter_log.edges) :
          vertex_labels_[iter_log.edges[x].v] \notin iter_log.edges[x].uafter
    /\ \A w \in Vertices : \A L \in Labels : Cardinality(EdgesTo(w, L)) <= 1

\* The entries after the searching one that pass the tests of lines 282-283
\* in search k: the bit of v's label is set in the mask, and the label is l.
Candidates(k) ==
  LET s == iter_log.searches[k]
  IN  {j \in (s.pos + 1) .. Len(s.vo) :
         /\ vertex_labels_[s.v] \in s.vo[j][2]
         /\ vertex_labels_[s.vo[j][1]] = s.l}

\* Those of them that are not adjacent to v, so that add_edge succeeds.
Free(k) ==
  {j \in Candidates(k) :
     iter_log.searches[k].vo[j][1] \notin
        iter_log.searches[k].adj[iter_log.searches[k].v]}

EdgesOfSearch(k) ==
  {x \in 1 .. Len(iter_log.edges) : iter_log.edges[x].search = k}

\* C16: run_greedy_iteration returns the number of edges of the graph after it
\* minus the number before it: the counter goes up exactly when add_edge
\* succeeds, and a mate that is adjacent already neither counts nor ends the
\* search (the first mate that is not adjacent gets the edge).
C16_ReturnsEdgesAdded ==
  Returned("run_greedy_iteration") =>
    /\ ret = EdgeCount(adjacency_list_, Vertices) - EdgeCount(pre_adj, Vertices)
    /\ m_ = EdgeCount(adjacency_list_, Vertices)
    /\ ret = Len(iter_log.edges)
    /\ \A k \in 1 .. Len(iter_log.searches) :
          IF Free(k) = {}
          THEN EdgesOfSearch(k) = {}
          ELSE \E x \in 1 .. Len(iter_log.edges) :
                 /\ EdgesOfSearch(k) = {x}
                 /\ iter_log.edges[x].upos = MinOf(Free(k))
                 /\ iter_log.edges[x].u \notin
                       iter_log.searches[k].adj[iter_log.edges[x].v]

\* A search that passed over a mate adjacent already and added an edge to a
\* later one.
C16_Witness ==
  /\ Returned("run_greedy_iteration")
  /\ ret >= 1
  /\ \E k \in 1 .. Len(iter_log.searches) :
       /\ Free(k) # {}
       /\ \E j \in Candidates(k) \ Free(k) : j < MinOf(Free(k))

\* C17: add_random_edge is called only on a graph that is neither
\* alpha-proximal nor complete, and by greedy only right after a greedy
\* iteration that added no edge; so every call of it adds an edge.
C17_RandomEdgeOnlyWhenNeeded ==
  [][(n_random' = n_random + 1) =>
       /\ pc \in {"hopeful_while", "greedy_test"}
       /\ ~Proximal(adjacency_list_, alpha)
       /\ ~Complete(adjacency_list_)
       /\ pc = "greedy_test" =>
             (num_new_edges = 0 /\ n_iter = passes)
       /\ m_' = m_ + 1]_vars

\* greedy returned after iterations that added edges and one or more that added
\* none and was followed by a random edge.
C17_Witness ==
  /\ Returned("greedy")
  /\ n_random >= 1
  /\ n_iter > n_random
  /\ EdgeCount(adjacency_list_, Vertices) - EdgeCount(pre_adj, Vertices) > n_random

====
